---- MODULE Spec2Model ----
(***************************************************************************)
(* QmlPhotoSphere (src/src/photosphere.cpp): the view-parameter setters,   *)
(* the source property and the texture-size limit of the panorama item,    *)
(* its two renderers with their synchronize passes, and the two meshes.    *)
(***************************************************************************)
EXTENDS Integers, Sequences, FiniteSets, TLC

VARIABLES
    m_azimuth,          \* qreal
    m_elevation,        \* qreal
    m_fieldOfView,      \* qreal
    m_recreateRenderer, \* bool
    m_nodeDirty,        \* bool, set by updateSphere()
    m_image,            \* QByteArray
    m_imageUrl,         \* QString
    m_cubeMap,          \* QMap<CubeFace, QByteArray>
    m_cubeMapUrls,      \* QVariantMap
    m_rendererType,     \* RendererType
    m_image_d,          \* the shared data block m_image points to, 0 = shared null
    m_cubeMap_d,        \* the shared data block m_cubeMap points to, 0 = shared null
    m_maximumTextureSize, \* int
    m_glMaxTexSize,     \* QAtomicInt of the item, -1 until a renderer has written it
    width,              \* QQuickItem::width()
    height,             \* QQuickItem::height()
    queued,             \* signalUpdatedMaxSize invocations waiting in the event queue
    renderer,           \* the renderer of the item's paint node, or NoRenderer
    pass,               \* what the latest paint-node update did
    frame,              \* what the latest render drew
    sphere,             \* Sphere3D::generateSphere: loop counters and vector sizes
    cube,               \* Cube3D::Cube3D: loop counter and the two arrays
    debugBuild,         \* TRUE when Q_ASSERT is compiled in (QT_NO_DEBUG not defined)
    alive,              \* FALSE once the process has been aborted
    last,               \* what the latest call did: its input, result, fetches, signals
    kinds,              \* history: the renderer kinds selected so far, latest last
    heard               \* history: what source() returned to a handler of the latest
                        \* sourceChanged, <<>> before the first one

vars == <<m_azimuth, m_elevation, m_fieldOfView, m_recreateRenderer, m_nodeDirty,
          m_image, m_imageUrl, m_cubeMap, m_cubeMapUrls, m_rendererType,
          m_image_d, m_cubeMap_d, m_maximumTextureSize, m_glMaxTexSize,
          width, height, queued, renderer, pass, frame, sphere, cube,
          debugBuild, alive, last, kinds, heard>>

viewVars == <<m_azimuth, m_elevation, m_fieldOfView>>
sourceVars == <<m_image, m_imageUrl, m_cubeMap, m_cubeMapUrls, m_rendererType,
                m_recreateRenderer>>
bufferVars == <<m_image_d, m_cubeMap_d>>
limitVars == <<m_maximumTextureSize, m_glMaxTexSize, queued>>
sizeVars == <<width, height>>
renderVars == <<renderer, pass, frame>>
meshVars == <<sphere, cube>>

(***************************************************************************)
(* qreal.  A qreal is an IEEE-754 binary floating point number.  Finite    *)
(* values are counted in units of 1/Deg degree and carry MantBits          *)
(* significant bits, so that an arithmetic result is rounded to the        *)
(* nearest representable value (ties to even) as the hardware does; the    *)
(* three non-finite classes are kept apart.                                *)
(***************************************************************************)
Deg == 4
MantBits == 9

Fin(n) == [cls |-> "fin", v |-> n]
NaN == [cls |-> "nan", v |-> 0]
PInf == [cls |-> "pinf", v |-> 0]
NInf == [cls |-> "ninf", v |-> 0]
Degrees(d) == Fin(d * Deg)

Abs(n) == IF n < 0 THEN -n ELSE n

RECURSIVE Pow2(_)
Pow2(n) == IF n = 0 THEN 1 ELSE 2 * Pow2(n - 1)

\* the spacing of representable values around magnitude mag
RECURSIVE Ulp(_, _)
Ulp(mag, s) == IF mag < Pow2(MantBits) * s THEN s ELSE Ulp(mag, 2 * s)

\* round to nearest representable, ties to even
Round(n) ==
    LET mag == Abs(n)
        s == Ulp(mag, 1)
        lo == (mag \div s) * s
        rem == mag - lo
        r == IF 2 * rem < s THEN lo
             ELSE IF 2 * rem > s THEN lo + s
             ELSE IF (lo \div s) % 2 = 0 THEN lo ELSE lo + s
    IN IF n < 0 THEN -r ELSE r

qIsFinite(x) == x.cls = "fin"

\* operator== on doubles: NaN equals nothing, itself included
FEq(x, y) == x.cls # "nan" /\ y.cls # "nan" /\ x = y

\* operator< on doubles: false as soon as one side is NaN
FLt(x, y) ==
    /\ x.cls # "nan" /\ y.cls # "nan"
    /\ \/ x.cls = "ninf" /\ y.cls # "ninf"
       \/ y.cls = "pinf" /\ x.cls # "pinf"
       \/ x.cls = "fin" /\ y.cls = "fin" /\ x.v < y.v

FGt(x, y) == FLt(y, x)

\* std::fmod(x, y) for finite x and y > 0: exact, with the sign of x
fmod(x, y) ==
    Fin(IF x.v >= 0 THEN x.v % y.v ELSE -((-x.v) % y.v))

\* x + y on finite doubles: the exact sum, rounded
FAdd(x, y) == Fin(Round(x.v + y.v))

\* qMin / qMax / qBound of qglobal.h, on doubles
qMin(a, b) == IF FLt(a, b) THEN a ELSE b
qMax(a, b) == IF FLt(a, b) THEN b ELSE a
qBoundNoLower(min, val, max) == qMin(max, val)
qBound(min, val, max) == qMax(min, qMin(max, val))

(***************************************************************************)
(* The record of the latest call.                                          *)
(***************************************************************************)
NoCall == [op |-> "none", arg |-> NaN, ret |-> "void",
           fetched |-> <<>>, got |-> <<>>, emitted |-> <<>>, updates |-> 0]

\* fetched: the locators handed to fetchUrl, got: the buffers it returned
Call(op, arg, ret, fetched, got, emitted, updates) ==
    [op |-> op, arg |-> arg, ret |-> ret, fetched |-> fetched, got |-> got,
     emitted |-> emitted, updates |-> updates]

\* the history keeps the last MaxKinds kinds, a kind being added when it changes
MaxKinds == 3

Selected(kind) ==
    IF kinds # <<>> /\ kinds[Len(kinds)] = kind THEN kinds
    ELSE IF Len(kinds) < MaxKinds THEN Append(kinds, kind)
    ELSE Append(Tail(kinds), kind)

(***************************************************************************)
(* View parameters.                                                        *)
(***************************************************************************)
\* lines 783-785: azimuth = fmod(azimuth, 360); if (azimuth < 0) azimuth += 360
normalizedAzimuth(azimuth) ==
    LET f == fmod(azimuth, Degrees(360))
    IN IF FLt(f, Degrees(0)) THEN FAdd(f, Degrees(360)) ELSE f

setAzimuth(azimuth) ==
    /\ alive
    /\ LET changed == /\ qIsFinite(azimuth)
                      /\ ~FEq(normalizedAzimuth(azimuth), m_azimuth)
       IN /\ m_azimuth' = IF changed THEN normalizedAzimuth(azimuth) ELSE m_azimuth
          /\ m_nodeDirty' = (m_nodeDirty \/ changed)
          /\ last' = Call("setAzimuth", azimuth, "void", <<>>, <<>>,
                          IF changed THEN <<"azimuthChanged">> ELSE <<>>,
                          IF changed THEN 1 ELSE 0)
    /\ UNCHANGED <<m_elevation, m_fieldOfView, sourceVars, bufferVars, limitVars, sizeVars,
                 renderVars, meshVars, debugBuild, alive, kinds, heard>>

\* line 802: the early return of setElevation
elevationReturnsEarly(elevation) ==
    FEq(elevation, m_elevation) \/ ~qIsFinite(elevation)

setElevation(elevation) ==
    /\ alive
    /\ LET done == ~elevationReturnsEarly(elevation)
       IN /\ m_elevation' = IF done
                              THEN qBound(Degrees(-90), elevation, Degrees(90))
                              ELSE m_elevation
          /\ m_nodeDirty' = (m_nodeDirty \/ done)
          /\ last' = Call("setElevation", elevation, "void", <<>>, <<>>,
                          IF done THEN <<"elevationChanged">> ELSE <<>>,
                          IF done THEN 1 ELSE 0)
    /\ UNCHANGED <<m_azimuth, m_fieldOfView, sourceVars, bufferVars, limitVars, sizeVars,
                 renderVars, meshVars, debugBuild, alive, kinds, heard>>

\* line 818: the early return of setFieldOfView
fovReturnsEarlyOnlyIfSame(fov) == FEq(fov, m_fieldOfView)
fovReturnsEarly(fov) ==
    FEq(fov, m_fieldOfView) \/ FLt(fov, Degrees(3)) \/ FGt(fov, Degrees(150))

setFieldOfView(fov) ==
    /\ alive
    /\ LET done == ~fovReturnsEarly(fov)
       IN /\ m_fieldOfView' = IF done THEN fov ELSE m_fieldOfView
          /\ m_nodeDirty' = (m_nodeDirty \/ done)
          /\ last' = Call("setFieldOfView", fov, "void", <<>>, <<>>,
                          IF done THEN <<"fieldOfViewChanged">> ELSE <<>>,
                          IF done THEN 1 ELSE 0)
    /\ UNCHANGED <<m_azimuth, m_elevation, sourceVars, bufferVars, limitVars, sizeVars,
                 renderVars, meshVars, debugBuild, alive, kinds, heard>>

\* the inputs of the setters: the non-finite doubles, and finite ones inside,
\* on and outside the limits (all representable)
NonFinite == {NaN, PInf, NInf}
AzimuthInputs ==
    NonFinite \cup {Fin(-1), Degrees(0), Degrees(90), Degrees(360), Degrees(450),
                    Degrees(-90), Degrees(-360), Degrees(720)}
ElevationInputs ==
    NonFinite \cup {Degrees(0), Degrees(45), Degrees(90), Degrees(100),
                    Degrees(-90), Degrees(-100)}
FieldOfViewInputs ==
    NonFinite \cup {Degrees(2), Degrees(3), Degrees(90), Degrees(150), Degrees(151)}

(***************************************************************************)
(* The source property.  Locators are QStrings, byte buffers are named by  *)
(* their content; fetching and decoding are the two external services.     *)
(***************************************************************************)
EmptyMap == [k \in {} |-> ""]
isEmpty(m) == DOMAIN m = {}

\* QUrl::isValid(): an empty or malformed locator is not valid
UrlIsValid(url) == url \notin {"", ":malformed"}

\* QImage::loadFromData(data): whether the bytes decode, and the image size
loadFromData(data) ==
    CASE data = "imgS" -> [ok |-> TRUE, width |-> 2, height |-> 1]
      [] data = "imgL" -> [ok |-> TRUE, width |-> 8, height |-> 4]
      [] data = "w0" -> [ok |-> TRUE, width |-> 0, height |-> 1]
      [] data = "h0" -> [ok |-> TRUE, width |-> 1, height |-> 0]
      [] OTHER -> [ok |-> FALSE, width |-> 0, height |-> 0]

\* lines 875-883 and 924-932: the two checks a fetched buffer must pass
imageAccepted(data) ==
    LET image == loadFromData(data)
    IN image.ok /\ image.width # 0 /\ image.height # 0

\* what fetchUrl can return: nothing, bytes that do not decode, bytes that
\* decode to an image without width or without height, two valid images
Bytes == {"", "junk", "w0", "h0", "imgS", "imgL"}

\* a QVariant holding a QString, and one that does not convert to a QString
Str(text) == [isString |-> TRUE, text |-> text]
NotStr == [isString |-> FALSE, text |-> ""]

\* the QVariant handed to setSource
StringVariant(url) == [kind |-> "string", url |-> url, map |-> EmptyMap]
MapVariant(map) == [kind |-> "map", url |-> "", map |-> map]
OtherVariant == [kind |-> "other", url |-> "", map |-> EmptyMap]

\* lines 826-831
sourceIgnoringCubeMap(cubeMapUrls, imageUrl) == StringVariant(imageUrl)
source(cubeMapUrls, imageUrl) ==
    IF ~isEmpty(cubeMapUrls) THEN MapVariant(cubeMapUrls)
    ELSE StringVariant(imageUrl)

\* line 860
urlNeverLoaded(url) == FALSE
urlAlreadyLoaded(url) == url = m_imageUrl

\* loadFromUrl storing the fetched bytes before it has looked at them
loadFromUrlStoringFirst(url, data) ==
    LET unchanged == [image |-> m_image, imageUrl |-> m_imageUrl,
                      emitted |-> <<>>, updates |-> 0]
    IN IF url = "" THEN [ret |-> FALSE, fetched |-> <<>>] @@ unchanged
       ELSE IF urlAlreadyLoaded(url) THEN [ret |-> TRUE, fetched |-> <<>>] @@ unchanged
       ELSE IF ~UrlIsValid(url) THEN [ret |-> FALSE, fetched |-> <<>>] @@ unchanged
       ELSE IF ~imageAccepted(data)
         THEN [ret |-> FALSE, fetched |-> <<url>>, image |-> data] @@ unchanged
       ELSE [ret |-> TRUE, fetched |-> <<url>>, image |-> data, imageUrl |-> url,
             emitted |-> <<"sourceChanged">>, updates |-> 1]

\* lines 855-891; data is what fetchUrl returns if it is called
loadFromUrl(url, data) ==
    LET unchanged == [image |-> m_image, imageUrl |-> m_imageUrl,
                      emitted |-> <<>>, updates |-> 0]
    IN IF url = "" THEN [ret |-> FALSE, fetched |-> <<>>] @@ unchanged
       ELSE IF urlAlreadyLoaded(url) THEN [ret |-> TRUE, fetched |-> <<>>] @@ unchanged
       ELSE IF ~UrlIsValid(url) THEN [ret |-> FALSE, fetched |-> <<>>] @@ unchanged
       ELSE IF ~imageAccepted(data) THEN [ret |-> FALSE, fetched |-> <<url>>] @@ unchanged
       ELSE [ret |-> TRUE, fetched |-> <<url>>, image |-> data, imageUrl |-> url,
             emitted |-> <<"sourceChanged">>, updates |-> 1]

urlIsFetched(url) == url # "" /\ ~urlAlreadyLoaded(url) /\ UrlIsValid(url)

\* lines 40-47
nameToCubeFace(name) ==
    CASE name = "PositiveZ" -> "PZ"
      [] name = "PositiveX" -> "PX"
      [] name = "PositiveY" -> "PY"
      [] name = "NegativeZ" -> "MZ"
      [] name = "NegativeY" -> "MY"
      [] name = "NegativeX" -> "MX"

\* lines 900-902
requiredKeys ==
    <<"PositiveX", "PositiveY", "PositiveZ", "NegativeX", "NegativeY", "NegativeZ">>

Min(S) == CHOOSE x \in S : \A y \in S : x <= y
Max(S) == CHOOSE x \in S : \A y \in S : x >= y

\* lines 903-912: the first required key that is missing or holds no string
keyProblem(cubeMap, k) ==
    IF k \notin DOMAIN cubeMap THEN "missing"
    ELSE IF ~cubeMap[k].isString THEN "notString" ELSE "ok"

validation(cubeMap) ==
    LET bad == {i \in DOMAIN requiredKeys : keyProblem(cubeMap, requiredKeys[i]) # "ok"}
    IN IF bad = {} THEN "ok" ELSE keyProblem(cubeMap, requiredKeys[Min(bad)])

\* lines 913-917
urlsValid(cubeMap) ==
    \A i \in DOMAIN requiredKeys : UrlIsValid(cubeMap[requiredKeys[i]].text)

\* line 897
cubeMapAlreadyLoaded(cubeMap) == m_cubeMapUrls = cubeMap

cubeMapIsFetched(cubeMap) ==
    /\ ~isEmpty(cubeMap) /\ ~cubeMapAlreadyLoaded(cubeMap)
    /\ validation(cubeMap) = "ok" /\ urlsValid(cubeMap)

\* lines 920-936: the index of the first face whose buffer is rejected, 0 if none
firstRejected(datas) ==
    LET bad == {i \in DOMAIN requiredKeys : ~imageAccepted(datas[i])}
    IN IF bad = {} THEN 0 ELSE Min(bad)

\* line 934, over the faces 1..n: a later assignment to a face replaces an earlier
cubeMapImages(datas, n) ==
    [f \in {nameToCubeFace(requiredKeys[i]) : i \in 1..n} |->
        datas[Max({i \in 1..n : nameToCubeFace(requiredKeys[i]) = f})]]

\* lines 919-937: m_cubeMap after the fetch loop
cubeMapFaceByFace(datas) ==
    IF firstRejected(datas) = 0 THEN cubeMapImages(datas, Len(requiredKeys))
    ELSE cubeMapImages(datas, firstRejected(datas) - 1) @@ m_cubeMap
cubeMapAfterFetch(datas) ==
    IF firstRejected(datas) = 0 THEN cubeMapImages(datas, Len(requiredKeys))
    ELSE m_cubeMap

\* lines 893-943; datas[i] is what fetchUrl returns for the i-th required key
loadFromCubeMap(cubeMap, datas) ==
    LET unchanged == [cubeMap |-> m_cubeMap, cubeMapUrls |-> m_cubeMapUrls,
                      emitted |-> <<>>, updates |-> 0]
        urls(n) == [i \in 1..n |-> cubeMap[requiredKeys[i]].text]
        rejected == firstRejected(datas)
    IN IF isEmpty(cubeMap) THEN [ret |-> "false", fetched |-> <<>>] @@ unchanged
       ELSE IF cubeMapAlreadyLoaded(cubeMap)
         THEN [ret |-> "true", fetched |-> <<>>] @@ unchanged
       ELSE IF validation(cubeMap) = "missing"
         \* Q_ASSERT(false) ends the process where assertions are compiled in
         THEN [ret |-> IF debugBuild THEN "abort" ELSE "false", fetched |-> <<>>]
              @@ unchanged
       ELSE IF validation(cubeMap) = "notString"
         THEN [ret |-> "false", fetched |-> <<>>] @@ unchanged
       ELSE IF ~urlsValid(cubeMap) THEN [ret |-> "false", fetched |-> <<>>] @@ unchanged
       ELSE IF rejected # 0
         THEN [ret |-> "false", fetched |-> urls(rejected),
               cubeMap |-> cubeMapAfterFetch(datas), cubeMapUrls |-> m_cubeMapUrls,
               emitted |-> <<>>, updates |-> 0]
       ELSE [ret |-> "true", fetched |-> urls(Len(requiredKeys)),
             cubeMap |-> cubeMapAfterFetch(datas), cubeMapUrls |-> cubeMap,
             emitted |-> <<"sourceChanged">>, updates |-> 1]

\* line 889: sourceChanged is emitted inside loadFromUrl, whose handlers run
\* before it returns; they read source() with the locator stored at line 885
\* and the cube-map locators as they were before the call
heardFromUrl(r) == source(m_cubeMapUrls, r.imageUrl)

\* line 941: the same inside loadFromCubeMap, with the locators stored at line
\* 938 and the single locator as it was before the call
heardFromCubeMap(r) == source(r.cubeMapUrls, m_imageUrl)

\* lines 950-954: what setSource does once loadFromUrl has returned true
onUrlLoadedKeepingCubeMap ==
    [rendererType |-> "SphereRenderer",
     recreateRenderer |-> (m_recreateRenderer \/ m_rendererType # "SphereRenderer"),
     cubeMap |-> m_cubeMap, cubeMapUrls |-> m_cubeMapUrls]
onUrlLoaded ==
    [rendererType |-> "SphereRenderer",
     recreateRenderer |-> (m_recreateRenderer \/ m_rendererType # "SphereRenderer"),
     cubeMap |-> EmptyMap, cubeMapUrls |-> EmptyMap]

\* lines 961-965: what setSource does once loadFromCubeMap has returned true
onCubeMapLoaded ==
    [rendererType |-> "CubeRenderer",
     recreateRenderer |-> (m_recreateRenderer \/ m_rendererType # "CubeRenderer"),
     image |-> "", imageUrl |-> ""]

(***************************************************************************)
(* The render-state snapshot (lines 130-151).  Its three angles are        *)
(* floats: a double is rounded to FloatMantBits significant bits when it   *)
(* is copied in.  A byte buffer is copied by sharing its data block, so a  *)
(* snapshot holds the bytes and the block they are in.                     *)
(***************************************************************************)
INT_MAX == 2147483647
FloatMantBits == 7

RECURSIVE UlpOf(_, _, _)
UlpOf(bits, mag, s) == IF mag < Pow2(bits) * s THEN s ELSE UlpOf(bits, mag, 2 * s)

\* round to the nearest value of bits significant bits, ties to even
RoundTo(bits, n) ==
    LET mag == Abs(n)
        s == UlpOf(bits, mag, 1)
        lo == (mag \div s) * s
        rem == mag - lo
        r == IF 2 * rem < s THEN lo
             ELSE IF 2 * rem > s THEN lo + s
             ELSE IF (lo \div s) % 2 = 0 THEN lo ELSE lo + s
    IN IF n < 0 THEN -r ELSE r

\* the conversion of a qreal to float
toFloat(x) == IF qIsFinite(x) THEN Fin(RoundTo(FloatMantBits, x.v)) ELSE x

\* lines 141-150: the member initializers of PhotoSphereRenderState
PhotoSphereRenderState ==
    [azimuth |-> Degrees(0), elevation |-> Degrees(0), fov |-> Degrees(90),
     viewportHeight |-> 0, viewportWidth |-> 0,
     source |-> "", source_d |-> 0, sourceCube |-> EmptyMap, sourceCube_d |-> 0,
     maxTexSize |-> INT_MAX]

\* QByteArray::isSharedWith and QMap::isSharedWith: the same data block
isSharedWith(d, other_d) == d = other_d

\* lines 131-141: PhotoSphereRenderState::operator==
stateEquals(a, o) ==
    /\ FEq(a.azimuth, o.azimuth)
    /\ FEq(a.elevation, o.elevation)
    /\ FEq(a.fov, o.fov)
    /\ a.viewportHeight = o.viewportHeight
    /\ a.viewportWidth = o.viewportWidth
    /\ isSharedWith(a.source_d, o.source_d)
    /\ isSharedWith(a.sourceCube_d, o.sourceCube_d)
    /\ a.maxTexSize = o.maxTexSize

\* a texture object: the bytes its storage was filled from and its width;
\* a texture that was created or destroyed and not filled has no storage
NoStorage == [bytes |-> "", width |-> 0]

\* the item has no paint node and so no renderer
NoRenderer ==
    [kind |-> "none", m_glMaxTexSize |-> INT_MAX,
     m_state |-> PhotoSphereRenderState, m_oldState |-> PhotoSphereRenderState,
     m_mvp |-> <<>>, textures |-> EmptyMap, m_shader |-> FALSE]

\* the data blocks still referenced by the item or by the renderer's snapshots
liveImageBlocks ==
    {m_image_d} \cup (IF renderer.kind = "none" THEN {}
                      ELSE {renderer.m_state.source_d, renderer.m_oldState.source_d})
liveCubeMapBlocks ==
    {m_cubeMap_d} \cup (IF renderer.kind = "none" THEN {}
                        ELSE {renderer.m_state.sourceCube_d,
                              renderer.m_oldState.sourceCube_d})

\* a freshly allocated data block is none of the live ones
newBlock(live) == Min({d \in 1..(Cardinality(live) + 1) : d \notin live})

\* lines 947-957: setSource with a QVariant that converts to a QString
setSourceString(url, data) ==
    /\ alive
    /\ \E r \in {loadFromUrl(url, data)} :
          /\ m_image' = r.image
          /\ m_imageUrl' = r.imageUrl
          /\ m_image_d' = IF r.updates > 0 THEN newBlock(liveImageBlocks)
                          ELSE m_image_d
          /\ m_cubeMap_d' = IF r.ret THEN 0 ELSE m_cubeMap_d
          /\ m_nodeDirty' = (m_nodeDirty \/ r.updates > 0)
          /\ last' = Call("setSource", StringVariant(url),
                          IF r.ret THEN "true" ELSE "false", r.fetched,
                          [i \in DOMAIN r.fetched |-> data], r.emitted, r.updates)
          /\ kinds' = IF r.ret THEN Selected(onUrlLoaded.rendererType) ELSE kinds
          /\ heard' = IF r.emitted # <<>> THEN <<heardFromUrl(r)>> ELSE heard
          /\ IF r.ret
               THEN /\ m_rendererType' = onUrlLoaded.rendererType
                    /\ m_recreateRenderer' = onUrlLoaded.recreateRenderer
                    /\ m_cubeMap' = onUrlLoaded.cubeMap
                    /\ m_cubeMapUrls' = onUrlLoaded.cubeMapUrls
               ELSE UNCHANGED <<m_rendererType, m_recreateRenderer, m_cubeMap,
                                m_cubeMapUrls>>
    /\ UNCHANGED <<viewVars, limitVars, sizeVars, renderVars, meshVars,
                   debugBuild, alive>>

\* lines 958-969: setSource with a QVariant that converts to a QVariantMap
setSourceMap(cubeMap, datas) ==
    /\ alive
    /\ \E r \in {loadFromCubeMap(cubeMap, datas)} :
          /\ m_cubeMap' = r.cubeMap
          /\ m_cubeMapUrls' = r.cubeMapUrls
          /\ m_cubeMap_d' = IF r.updates > 0 THEN newBlock(liveCubeMapBlocks)
                            ELSE m_cubeMap_d
          /\ m_image_d' = IF r.ret = "true" THEN 0 ELSE m_image_d
          /\ m_nodeDirty' = (m_nodeDirty \/ r.updates > 0)
          /\ alive' = (r.ret # "abort")
          /\ last' = Call("setSource", MapVariant(cubeMap), r.ret, r.fetched,
                          [i \in DOMAIN r.fetched |-> datas[i]], r.emitted, r.updates)
          /\ kinds' = IF r.ret = "true" THEN Selected(onCubeMapLoaded.rendererType)
                      ELSE kinds
          /\ heard' = IF r.emitted # <<>> THEN <<heardFromCubeMap(r)>> ELSE heard
          /\ IF r.ret = "true"
               THEN /\ m_rendererType' = onCubeMapLoaded.rendererType
                    /\ m_recreateRenderer' = onCubeMapLoaded.recreateRenderer
                    /\ m_image' = onCubeMapLoaded.image
                    /\ m_imageUrl' = onCubeMapLoaded.imageUrl
               ELSE UNCHANGED <<m_rendererType, m_recreateRenderer, m_image,
                                m_imageUrl>>
    /\ UNCHANGED <<viewVars, limitVars, sizeVars, renderVars, meshVars, debugBuild>>

\* lines 945-970: setSource with a QVariant that converts to neither
setSourceOther ==
    /\ alive
    /\ last' = Call("setSource", OtherVariant, "void", <<>>, <<>>, <<>>, 0)
    /\ UNCHANGED <<viewVars, sourceVars, m_nodeDirty, bufferVars, limitVars, sizeVars,
                   renderVars, meshVars, debugBuild, alive, kinds, heard>>

(***************************************************************************)
(* The texture-size limit and the size of the item.                        *)
(***************************************************************************)
\* qMin of qglobal.h, on ints
qMinInt(a, b) == IF a < b THEN a ELSE b

\* lines 972-975
maximumTextureSize == qMinInt(m_maximumTextureSize, m_glMaxTexSize)

\* lines 984-985: the first return of setMaximumTextureSize
sameLimit(maxTexSize) == maxTexSize = m_maximumTextureSize

\* lines 987-991: the second return, taken when the effective value stays
neverSameEffect(oldSz, newSz) == FALSE
sameEffect(oldSz, newSz) == oldSz = newSz

\* lines 982-994
setMaximumTextureSize(maxTexSize) ==
    /\ alive
    /\ LET oldSz == maximumTextureSize
           newSz == qMinInt(maxTexSize, m_glMaxTexSize)
           quiet == sameLimit(maxTexSize) \/ sameEffect(oldSz, newSz)
       IN /\ m_maximumTextureSize' = maxTexSize
          /\ m_nodeDirty' = (m_nodeDirty \/ ~quiet)
          /\ last' = Call("setMaximumTextureSize", [int |-> maxTexSize], "void", <<>>, <<>>,
                          IF quiet THEN <<>> ELSE <<"maximumTextureSizeChanged">>,
                          IF quiet THEN 0 ELSE 1)
    /\ UNCHANGED <<viewVars, sourceVars, bufferVars, m_glMaxTexSize, queued, sizeVars,
                   renderVars, meshVars, debugBuild, alive, kinds, heard>>

\* lines 977-980: the event loop delivers a queued invocation
signalUpdatedMaxSize ==
    /\ alive
    /\ queued > 0
    /\ queued' = queued - 1
    /\ last' = Call("signalUpdatedMaxSize", NaN, "void", <<>>, <<>>,
                    <<"maximumTextureSizeChanged">>, 0)
    /\ UNCHANGED <<viewVars, sourceVars, m_nodeDirty, bufferVars, m_maximumTextureSize,
                   m_glMaxTexSize, sizeVars, renderVars, meshVars, debugBuild, alive,
                   kinds, heard>>

\* lines 375-376 read width() and height(), which the scene sets
setSize(w, h) ==
    /\ alive
    /\ width' = w
    /\ height' = h
    /\ last' = Call("setSize", NaN, "void", <<>>, <<>>, <<>>, 0)
    /\ UNCHANGED <<viewVars, sourceVars, m_nodeDirty, bufferVars, limitVars,
                   renderVars, meshVars, debugBuild, alive, kinds, heard>>

(***************************************************************************)
(* The two renderers.                                                      *)
(***************************************************************************)
\* line 395: what glGetIntegerv(GL_MAX_TEXTURE_SIZE) reports on this device
GL_MAX_TEXTURE_SIZE == 4

Faces == {"PX", "PY", "PZ", "MX", "MY", "MZ"}

\* lines 1007-1013, with the member initializers of the renderer classes
createRenderer ==
    [NoRenderer EXCEPT !.kind = IF m_rendererType = "CubeRenderer"
                                  THEN "CubeRenderer" ELSE "SphereRenderer"]

\* lines 393-398, 512-526, 646-667: init() does its work once per renderer
init(r) ==
    IF r.m_shader THEN r
    ELSE [r EXCEPT !.m_shader = TRUE,
                   !.m_glMaxTexSize = GL_MAX_TEXTURE_SIZE,
                   !.textures = IF r.kind = "CubeRenderer"
                                  THEN [f \in Faces |-> NoStorage]
                                  ELSE [t \in {"photoSphere"} |-> NoStorage]]

\* lines 371-378: the snapshot taken from the item
snapshot(r) ==
    [azimuth |-> toFloat(m_azimuth),
     elevation |-> toFloat(m_elevation),
     fov |-> toFloat(m_fieldOfView),
     viewportWidth |-> width,
     viewportHeight |-> height,
     source |-> m_image, source_d |-> m_image_d,
     sourceCube |-> m_cubeMap, sourceCube_d |-> m_cubeMap_d,
     maxTexSize |-> qMinInt(r.m_glMaxTexSize, m_maximumTextureSize)]

\* updateState keeping the snapshot before last as the previous one
updateStateKeepingOld(r) == [r EXCEPT !.m_state = snapshot(r)]

\* lines 368-379: the renderer's side of updateState
updateState(r) ==
    [r EXCEPT !.m_oldState = r.m_state, !.m_state = snapshot(r)]

\* lines 381-389: the item's side of updateState; whether an invocation of
\* signalUpdatedMaxSize is queued
updatedMaxSizeIsQueued(r) ==
    /\ m_glMaxTexSize # r.m_glMaxTexSize
    /\ qMinInt(m_glMaxTexSize, m_maximumTextureSize)
         # qMinInt(r.m_glMaxTexSize, m_maximumTextureSize)

\* QImage::fromData: a null image when the bytes do not decode or when no
\* memory is left for the pixels
nullImage == [ok |-> FALSE, width |-> 0, height |-> 0]
fromData(data, outOfMemory) ==
    IF outOfMemory \/ ~loadFromData(data).ok THEN nullImage ELSE loadFromData(data)

\* QImage::scaledToWidth: a null image for a width that is not positive
scaledToWidth(image, w) ==
    IF w <= 0 \/ ~image.ok THEN nullImage
    ELSE [ok |-> TRUE, width |-> w, height |-> (image.height * w) \div image.width]

\* QOpenGLTexture::setData(image) on a destroyed texture: a null image is refused
setData(image, data) ==
    IF ~image.ok THEN NoStorage ELSE [bytes |-> data, width |-> image.width]

\* lines 478-492 and 591-605: the product of the three matrices
mvp(state) ==
    <<[matrix |-> "perspective", angle |-> state.fov,
       w |-> state.viewportWidth, h |-> state.viewportHeight],
      [matrix |-> "rotate -x", angle |-> state.elevation, w |-> 0, h |-> 0],
      [matrix |-> "rotate y", angle |-> state.azimuth, w |-> 0, h |-> 0]>>

\* what one call of synchronize did
NoPass ==
    [discarded |-> FALSE, created |-> FALSE, ran |-> FALSE, changed |-> FALSE,
     invalidated |-> FALSE, recomputed |-> FALSE,
     decoded |-> {}, failed |-> {}, destroyed |-> {}, uploaded |-> {}]

\* lines 471-476, 584-589: the viewport of the two snapshots differs
viewportChanged(r) ==
    \/ r.m_state.viewportHeight # r.m_oldState.viewportHeight
    \/ r.m_state.viewportWidth # r.m_oldState.viewportWidth

\* lines 495-499: the single texture is scaled to the device limit
sphereImage(r, outOfMemory) ==
    LET image == fromData(r.m_state.source, outOfMemory)
    IN IF image.width > r.m_glMaxTexSize
         THEN scaledToWidth(image, r.m_glMaxTexSize) ELSE image

\* lines 468-509: PhotoSphereRenderer::synchronize after the base part, r
\* being the renderer with its two snapshots updated
synchronizeSphere(r, outOfMemory) ==
    LET image == fromData(r.m_state.source, outOfMemory)
        rejected == ~image.ok \/ image.width = 0 \/ image.height = 0
        work == [NoPass EXCEPT !.ran = TRUE, !.changed = TRUE, !.recomputed = TRUE,
                               !.invalidated = viewportChanged(r)]
        r1 == [r EXCEPT !.m_mvp = mvp(r.m_state)]
    IN IF r.m_oldState.source = r.m_state.source
         THEN [renderer |-> r1, pass |-> work]
       ELSE IF rejected
         THEN [renderer |-> r1,
               pass |-> [work EXCEPT !.decoded = {"photoSphere"},
                                     !.failed = {"photoSphere"}]]
       ELSE [renderer |-> [r1 EXCEPT !.textures =
                              [t \in {"photoSphere"} |->
                                 setData(sphereImage(r, outOfMemory), r.m_state.source)]],
             pass |-> [work EXCEPT !.decoded = {"photoSphere"},
                                   !.destroyed = {"photoSphere"},
                                   !.uploaded = {"photoSphere"}]]

\* lines 627-630: a face is scaled to the smaller of the two limits
cubeImage(r, face, outOfMemory) ==
    LET data == IF face \in DOMAIN r.m_state.sourceCube
                  THEN r.m_state.sourceCube[face] ELSE ""
        image == fromData(data, outOfMemory)
        maxSz == qMinInt(r.m_state.maxTexSize, r.m_glMaxTexSize)
    IN IF image.width > maxSz THEN scaledToWidth(image, maxSz) ELSE image

\* lines 621-622: when the six faces are loaded again
cubeReloads(r) ==
    \/ r.m_oldState.sourceCube # r.m_state.sourceCube
    \/ r.m_oldState.maxTexSize # r.m_state.maxTexSize

\* lines 581-643: PhotoSphereRendererCube::synchronize after the base part
synchronizeCube(r, outOfMemory) ==
    LET work == [NoPass EXCEPT !.ran = TRUE, !.changed = TRUE, !.recomputed = TRUE,
                               !.invalidated = viewportChanged(r)]
        r1 == [r EXCEPT !.m_mvp = mvp(r.m_state)]
        data(face) == IF face \in DOMAIN r.m_state.sourceCube
                        THEN r.m_state.sourceCube[face] ELSE ""
    IN IF ~cubeReloads(r) THEN [renderer |-> r1, pass |-> work]
       ELSE [renderer |-> [r1 EXCEPT !.textures =
                              [f \in Faces |->
                                 setData(cubeImage(r, f, outOfMemory), data(f))]],
             pass |-> [work EXCEPT
                         !.decoded = Faces,
                         !.failed = {f \in Faces : ~fromData(data(f), outOfMemory).ok},
                         !.destroyed = Faces,
                         !.uploaded = {f \in Faces : cubeImage(r, f, outOfMemory).ok}]]

\* lines 403-410 with 468-470 and 581-583: init, updateState, and the rest of
\* synchronize when the two snapshots differ
synchronize(r0, outOfMemory) ==
    LET r == updateState(init(r0))
    IN IF stateEquals(r.m_state, r.m_oldState)
         THEN [renderer |-> r, pass |-> [NoPass EXCEPT !.ran = TRUE]]
       ELSE IF r.kind = "CubeRenderer" THEN synchronizeCube(r, outOfMemory)
       ELSE synchronizeSphere(r, outOfMemory)

\* lines 998-1003: the existing node goes when a renderer of the other kind
\* was asked for
neverDiscardsNode == FALSE
discardsNode == renderer.kind # "none" /\ m_recreateRenderer

\* lines 996-1005, with QQuickFramebufferObject::updatePaintNode called at
\* line 1004: no node for an item without area, a renderer from
\* createRenderer for a node without one, then synchronize
updatePaintNode(outOfMemory) ==
    /\ alive
    /\ LET oldNode == IF discardsNode THEN NoRenderer ELSE renderer
           r0 == IF oldNode.kind = "none" THEN createRenderer ELSE oldNode
       IN /\ m_recreateRenderer' = IF discardsNode THEN FALSE ELSE m_recreateRenderer
          /\ IF oldNode.kind = "none" /\ (width <= 0 \/ height <= 0)
               THEN /\ renderer' = NoRenderer
                    /\ pass' = [NoPass EXCEPT !.discarded = discardsNode]
                    /\ UNCHANGED <<m_glMaxTexSize, queued>>
               ELSE \E res \in {synchronize(r0, outOfMemory)} :
                    /\ renderer' = res.renderer
                    /\ pass' = [res.pass EXCEPT !.discarded = discardsNode,
                                                !.created = (oldNode.kind = "none")]
                    /\ m_glMaxTexSize' = init(r0).m_glMaxTexSize
                    /\ queued' = IF updatedMaxSizeIsQueued(init(r0))
                                   THEN queued + 1 ELSE queued
    /\ last' = Call("updatePaintNode", NaN, "void", <<>>, <<>>, <<>>, 0)
    /\ UNCHANGED <<viewVars, m_nodeDirty, m_image, m_imageUrl, m_cubeMap, m_cubeMapUrls,
                   m_rendererType, bufferVars, m_maximumTextureSize, sizeVars, frame,
                   meshVars, debugBuild, alive, kinds, heard>>

(***************************************************************************)
(* render.  A frame is the matrix handed to the shader, the mesh drawn and *)
(* the texture bound for each draw call.                                   *)
(***************************************************************************)
NoFrame == [matrix |-> <<>>, mesh |-> "none", bound |-> EmptyMap]

\* line 441 and line 566: a texture is bound when it has storage wider than 1
texturing(tex) == tex # NoStorage /\ tex.width > 1

\* the matrix taken from the item as it is when render runs
matrixFromItem(r) == mvp(snapshot(r))
\* lines 450 and 558: setUniformValue("matrix", m_mvp)
matrixUniform(r) == r.m_mvp

\* lines 437-464 and 548-579: render() of the two renderers
render ==
    /\ alive
    /\ renderer.kind # "none"
    /\ frame' = [matrix |-> matrixUniform(renderer),
                 mesh |-> IF renderer.kind = "CubeRenderer" THEN "cube" ELSE "sphere",
                 bound |-> [t \in DOMAIN renderer.textures |->
                              IF texturing(renderer.textures[t])
                                THEN renderer.textures[t] ELSE NoStorage]]
    /\ last' = Call("render", NaN, "void", <<>>, <<>>, <<>>, 0)
    /\ UNCHANGED <<viewVars, sourceVars, m_nodeDirty, bufferVars, limitVars, sizeVars,
                   renderer, pass, meshVars, debugBuild, alive, kinds, heard>>

(***************************************************************************)
(* The two meshes.  The loop counters of generateSphere are doubles that   *)
(* advance by 1/64 and 1/32; every value they take is a multiple of 1/64   *)
(* below 2 and so exact, and they are counted in units of step.            *)
(***************************************************************************)
\* line 166: 1.0 in units of step = 0.015625
One == 64
\* lines 170-171: di = step, dj = step * 2.0
di == 1
dj == 2

\* before the first iteration; the two vectors are given by their sizes
SphereStart == [i |-> 0, j |-> 0, cells |-> 0, m_sphereVertices |-> 0, m_texCoords |-> 0]

\* lines 200-201: six vertices and six texture coordinates are appended
perCell == 6

\* lines 175-202: one iteration of the inner loop, with the loop increments
generateSphereStep ==
    /\ sphere.i < One
    /\ sphere' = [i |-> IF sphere.j + dj < One THEN sphere.i ELSE sphere.i + di,
                  j |-> IF sphere.j + dj < One THEN sphere.j + dj ELSE 0,
                  cells |-> sphere.cells + 1,
                  m_sphereVertices |-> sphere.m_sphereVertices + perCell,
                  m_texCoords |-> sphere.m_texCoords + perCell]
    /\ UNCHANGED <<viewVars, sourceVars, m_nodeDirty, bufferVars, limitVars, sizeVars,
                   renderVars, cube, debugBuild, alive, last, kinds, heard>>

\* line 339 and the default argument at line 259
m_scale == 1

\* lines 261-270: the eight corners
m_cubeVertices ==
    [c \in 0..7 |->
       CASE c = 0 -> <<-1 * m_scale, 1 * m_scale, 1 * m_scale>>
         [] c = 1 -> <<-1 * m_scale, -1 * m_scale, 1 * m_scale>>
         [] c = 2 -> <<1 * m_scale, -1 * m_scale, 1 * m_scale>>
         [] c = 3 -> <<1 * m_scale, 1 * m_scale, 1 * m_scale>>
         [] c = 4 -> <<-1 * m_scale, 1 * m_scale, -1 * m_scale>>
         [] c = 5 -> <<-1 * m_scale, -1 * m_scale, -1 * m_scale>>
         [] c = 6 -> <<1 * m_scale, -1 * m_scale, -1 * m_scale>>
         [] c = 7 -> <<1 * m_scale, 1 * m_scale, -1 * m_scale>>]

\* the table with two corners of the first face exchanged for two of the back
m_indicesOffSide ==
    <<3, 2, 5, 4,  4, 0, 3, 7,  0, 1, 2, 3,  4, 5, 1, 0,  1, 5, 6, 2,  7, 6, 5, 4>>
\* lines 271-278: four corners per face, in the order PX PY PZ MX MY MZ
m_indices ==
    <<3, 2, 6, 7,  4, 0, 3, 7,  0, 1, 2, 3,  4, 5, 1, 0,  1, 5, 6, 2,  7, 6, 5, 4>>

\* lines 279-284
m_texCoordsFace == <<<<1, 0>>, <<1, 1>>, <<0, 1>>, <<0, 0>>>>

\* lines 345-346: the two arrays before the loop has written them
CubeStart ==
    [i |-> 0, m_vertices |-> [k \in 0..23 |-> <<0, 0, 0>>],
     m_texCoords |-> [k \in 0..23 |-> <<0, 0>>]]

\* lines 286-289: one iteration of the loop of the constructor
cubeStep ==
    /\ cube.i < Len(m_indices)
    /\ cube' = [i |-> cube.i + 1,
                m_vertices |-> [cube.m_vertices EXCEPT
                                  ![cube.i] = m_cubeVertices[m_indices[cube.i + 1]]],
                m_texCoords |-> [cube.m_texCoords EXCEPT
                                  ![cube.i] = m_texCoordsFace[(cube.i % 4) + 1]]]
    /\ UNCHANGED <<viewVars, sourceVars, m_nodeDirty, bufferVars, limitVars, sizeVars,
                   renderVars, sphere, debugBuild, alive, last, kinds, heard>>

\* the locators and mappings handed to setSource
UrlInputs == {"", "a", "b", ":malformed"}

Full(url) == [k \in {requiredKeys[i] : i \in DOMAIN requiredKeys} |-> Str(url)]
Without(map, k) == [j \in DOMAIN map \ {k} |-> map[j]]
With(map, k, value) == [j \in DOMAIN map \cup {k} |-> IF j = k THEN value ELSE map[j]]

ValidCubeMapInputs ==
    {Full("a"), Full("b"), With(Full("a"), "Extra", Str("b"))}
InvalidCubeMapInputs ==
    {EmptyMap}
    \cup {Without(Full("a"), requiredKeys[i]) : i \in DOMAIN requiredKeys}
    \cup {With(Full("a"), "PositiveZ", NotStr),
          With(Without(Full("a"), "NegativeZ"), "PositiveX", NotStr),
          With(Full("a"), "NegativeY", Str(":malformed")),
          With(Full("b"), "PositiveX", Str(""))}
CubeMapInputs == ValidCubeMapInputs \cup InvalidCubeMapInputs

\* what the six fetches of one call return: six small images, or five of them
\* and one other buffer in any one place
AllSmall == [i \in DOMAIN requiredKeys |-> "imgS"]
CubeFetches ==
    {[AllSmall EXCEPT ![i] = data] : i \in DOMAIN requiredKeys, data \in Bytes}

(***************************************************************************)
(* Construction (photosphere.h:156-169, photosphere.cpp:760-766).          *)
(***************************************************************************)
Init ==
    /\ m_azimuth = Degrees(0)
    /\ m_elevation = Degrees(0)
    /\ m_fieldOfView = Degrees(90)
    /\ m_recreateRenderer = FALSE
    /\ m_nodeDirty = FALSE
    /\ m_image = ""
    /\ m_imageUrl = ""
    /\ m_cubeMap = EmptyMap
    /\ m_cubeMapUrls = EmptyMap
    /\ m_rendererType = "CubeRenderer"
    /\ debugBuild \in BOOLEAN
    /\ alive = TRUE
    /\ last = NoCall
    /\ kinds = <<>>
    /\ heard = <<>>
    /\ m_image_d = 0
    /\ m_cubeMap_d = 0
    /\ m_maximumTextureSize = 65536
    /\ m_glMaxTexSize = -1
    /\ width = 0
    /\ height = 0
    /\ queued = 0
    /\ renderer = NoRenderer
    /\ pass = NoPass
    /\ frame = NoFrame
    /\ sphere = SphereStart
    /\ cube = CubeStart

NextView ==
    \/ \E f \in FieldOfViewInputs : setFieldOfView(f)
    \/ \E e \in ElevationInputs : setElevation(e)
    \/ \E a \in AzimuthInputs : setAzimuth(a)

SpecView == Init /\ [][NextView]_vars

NextSource ==
    \/ \E url \in UrlInputs :
          \E data \in (IF urlIsFetched(url) THEN Bytes ELSE {""}) :
             setSourceString(url, data)
    \/ \E cubeMap \in CubeMapInputs :
          \E datas \in (IF cubeMapIsFetched(cubeMap) THEN CubeFetches ELSE {AllSmall}) :
             setSourceMap(cubeMap, datas)
    \/ setSourceOther

SpecSource == Init /\ [][NextSource]_vars

\* the texture-size limit with the passes that write the device limit
LimitInputs == {-5, 0, 2, 8, 65536}
SizeInputs == {<<0, 0>>, <<4, 2>>, <<8, 2>>}

NextLimit ==
    \/ \E v \in LimitInputs : setMaximumTextureSize(v)
    \/ \E sz \in SizeInputs : setSize(sz[1], sz[2])
    \/ \E outOfMemory \in BOOLEAN : updatePaintNode(outOfMemory)
    \/ signalUpdatedMaxSize

SpecLimit == Init /\ [][NextLimit]_vars

NextMesh ==
    \/ generateSphereStep
    \/ cubeStep

SpecMesh == Init /\ [][NextMesh]_vars

\* the equirectangular renderer: two locators, the first always holding the
\* large image and the second the large or the small one, a view change, a
\* limit below the device's, and paint-node updates whose decoding finds
\* memory or not
SphereFetches(url) == IF url = "a" THEN {"imgL"} ELSE {"imgS", "imgL"}
RenderSizeInputs == {<<4, 2>>}
SphereFieldOfViewInputs == {Degrees(60)}

NextSphere ==
    \/ \E url \in {"a", "b"} :
          \E data \in (IF urlIsFetched(url) THEN SphereFetches(url) ELSE {""}) :
             setSourceString(url, data)
    \/ \E f \in SphereFieldOfViewInputs : setFieldOfView(f)
    \/ \E v \in {2} : setMaximumTextureSize(v)
    \/ \E sz \in RenderSizeInputs : setSize(sz[1], sz[2])
    \/ \E outOfMemory \in BOOLEAN : updatePaintNode(outOfMemory)
    \/ signalUpdatedMaxSize

SpecSphere == Init /\ [][NextSphere]_vars

\* the cube-map renderer: two mappings, six large or six small images
AllLarge == [i \in DOMAIN requiredKeys |-> "imgL"]
CubeRenderInputs == {Full("a"), Full("b")}
CubeRenderFetches == {AllSmall, AllLarge}

NextCube ==
    \/ \E cubeMap \in CubeRenderInputs :
          \E datas \in (IF cubeMapIsFetched(cubeMap) THEN CubeRenderFetches
                        ELSE {AllSmall}) :
             setSourceMap(cubeMap, datas)
    \/ \E v \in {2, 65536} : setMaximumTextureSize(v)
    \/ \E sz \in RenderSizeInputs : setSize(sz[1], sz[2])
    \/ \E outOfMemory \in BOOLEAN : updatePaintNode(outOfMemory)
    \/ signalUpdatedMaxSize

SpecCube == Init /\ [][NextCube]_vars

\* the choice of the renderer: sources of both kinds, calls that fail, an item
\* with and without area
KindCubeMapInputs == {EmptyMap, Full("a")}

NextKind ==
    \/ \E url \in {"", "a"} :
          \E data \in (IF urlIsFetched(url) THEN {"imgS"} ELSE {""}) :
             setSourceString(url, data)
    \/ \E cubeMap \in KindCubeMapInputs : setSourceMap(cubeMap, AllSmall)
    \/ \E sz \in {<<0, 0>>, <<4, 2>>} : setSize(sz[1], sz[2])
    \/ updatePaintNode(FALSE)

SpecKind == Init /\ [][NextKind]_vars

\* the comparison of two snapshots: the field of view with the values its
\* setter lets through, and two locators holding the same bytes
SnapshotFieldOfViewInputs == {Degrees(60), NaN}

NextSnapshot ==
    \/ \E f \in SnapshotFieldOfViewInputs : setFieldOfView(f)
    \/ \E url \in {"a", "b"} :
          \E data \in (IF urlIsFetched(url) THEN {"imgS"} ELSE {""}) :
             setSourceString(url, data)
    \/ \E sz \in RenderSizeInputs : setSize(sz[1], sz[2])
    \/ updatePaintNode(FALSE)

SpecSnapshot == Init /\ [][NextSnapshot]_vars

\* the frames: setters of the view, the source and the limit between the
\* paint-node updates and the renders
FrameCubeMapInputs == {Full("a")}

NextFrame ==
    \/ \E f \in SphereFieldOfViewInputs : setFieldOfView(f)
    \/ \E url \in {"a"} :
          \E data \in (IF urlIsFetched(url) THEN SphereFetches(url) ELSE {""}) :
             setSourceString(url, data)
    \/ \E cubeMap \in FrameCubeMapInputs : setSourceMap(cubeMap, AllSmall)
    \/ \E v \in {2} : setMaximumTextureSize(v)
    \/ \E sz \in RenderSizeInputs : setSize(sz[1], sz[2])
    \/ updatePaintNode(FALSE)
    \/ render

SpecFrame == Init /\ [][NextFrame]_vars

Next == NextView \/ NextSource \/ NextLimit \/ NextMesh \/ NextSphere \/ NextCube
          \/ NextKind \/ NextSnapshot \/ NextFrame

Spec == Init /\ [][Next]_vars

(***************************************************************************)
(* Claims about the view parameters (checked under SpecView).              *)
(***************************************************************************)
IsCall(op) == last'.op = op

InDegrees(x, lo, hi) == x.cls = "fin" /\ lo * Deg <= x.v /\ x.v <= hi * Deg

\* C1: after any sequence of setter calls with arbitrary inputs the azimuth is
\* finite and in [0,360), the elevation finite and in [-90,90], the field of
\* view finite and in [3,150]; a non-finite input leaves the value unchanged.
C1_ViewParametersFiniteAndInRange ==
    [][ /\ InDegrees(m_azimuth', 0, 360) /\ m_azimuth' # Degrees(360)
        /\ InDegrees(m_elevation', -90, 90)
        /\ InDegrees(m_fieldOfView', 3, 150)
        /\ (last'.op \in {"setAzimuth", "setElevation", "setFieldOfView"}
              /\ ~qIsFinite(last'.arg)) => viewVars' = viewVars ]_vars

\* C2: for every finite a, setAzimuth(a) stores ((a mod 360) + 360) mod 360;
\* for non-finite a the stored azimuth is unchanged.
C2_NormalForm(a) == fmod(FAdd(fmod(a, Degrees(360)), Degrees(360)), Degrees(360))

C2_AzimuthIsDoubleModulo ==
    [][ IsCall("setAzimuth") =>
          m_azimuth' = IF last'.arg.cls = "fin" THEN C2_NormalForm(last'.arg)
                       ELSE m_azimuth ]_vars

\* C3: for every finite e, setElevation(e) stores clamp(e, -90, 90) whatever
\* was stored before; for non-finite e the stored elevation is unchanged.
C3_Clamp(e) ==
    IF e.v < -90 * Deg THEN Fin(-90 * Deg)
    ELSE IF e.v > 90 * Deg THEN Fin(90 * Deg) ELSE e

C3_ElevationIsClamped ==
    [][ IsCall("setElevation") =>
          m_elevation' = IF last'.arg.cls = "fin" THEN C3_Clamp(last'.arg)
                         ELSE m_elevation ]_vars

\* a call with an input below the range has stored the lower limit, having had
\* another value before
C3_Witness ==
    /\ last.op = "setElevation" /\ last.arg = Degrees(-100)
    /\ last.updates = 1 /\ m_elevation = Degrees(-90)

\* C4: setFieldOfView(f) with f < 3, f > 150 or f equal to the current value
\* changes nothing, emits nothing and schedules no repaint (no clamping).
C4_OutOfRangeOrSame(f) ==
    \/ f.cls = "ninf" \/ f.cls = "pinf"
    \/ f.cls = "fin" /\ (f.v < 3 * Deg \/ f.v > 150 * Deg)
    \/ f.cls = "fin" /\ f = m_fieldOfView

C5_Notified(sig) == last'.emitted = <<sig>> /\ last'.updates = 1
C5_Silent == last'.emitted = <<>> /\ last'.updates = 0

C5_NotifiesIffChanged ==
    [][ /\ IsCall("setAzimuth") =>
              IF FEq(m_azimuth', m_azimuth) THEN C5_Silent
              ELSE C5_Notified("azimuthChanged")
        /\ IsCall("setElevation") =>
              IF FEq(m_elevation', m_elevation) THEN C5_Silent
              ELSE C5_Notified("elevationChanged")
        /\ IsCall("setFieldOfView") =>
              IF FEq(m_fieldOfView', m_fieldOfView) THEN C5_Silent
              ELSE C5_Notified("fieldOfViewChanged") ]_vars

(***************************************************************************)
(* Claims about the source property (checked under SpecSource).            *)
(***************************************************************************)
RequiredKeySet == {"PositiveX", "PositiveY", "PositiveZ",
                   "NegativeX", "NegativeY", "NegativeZ"}

\* C6: of two consecutive setSource calls with the same single locator, or
\* the same six-locator mapping, the first of which succeeds, the second
\* fetches nothing, changes no stored state and emits nothing; the pair emits
\* exactly one sourceChanged when the first call loaded the source.
C6_RepeatedSetSourceIsNoOp ==
    [][ (/\ last.op = "setSource" /\ last.ret = "true"
         /\ last.arg.kind \in {"string", "map"}
         /\ IsCall("setSource") /\ last'.arg = last.arg) =>
          /\ last'.fetched = <<>> /\ last'.emitted = <<>> /\ last'.updates = 0
          /\ sourceVars' = sourceVars /\ viewVars' = viewVars
          /\ m_nodeDirty' = m_nodeDirty
          /\ last.fetched # <<>> =>
               last.emitted \o last'.emitted = <<"sourceChanged">> ]_vars

\* the second of two calls with locator "a" has returned
C6_Witness ==
    /\ last.op = "setSource" /\ last.arg = StringVariant("a")
    /\ last.ret = "true" /\ last.fetched = <<>> /\ m_imageUrl = "a"

\* C7: after a successful setSource(x) the source property reads x, in the
\* form it was set; after a successful single-image setSource the cube-map
\* bytes and locators are empty, whatever was loaded before; a failed
\* setSource does not change what source reads.
C7_SourceReadsBackWhatWasSet ==
    [][ IsCall("setSource") =>
          IF last'.ret = "true"
            THEN /\ source(m_cubeMapUrls', m_imageUrl') = last'.arg
                 /\ last'.arg.kind = "string" =>
                      m_cubeMap' = EmptyMap /\ m_cubeMapUrls' = EmptyMap
            ELSE source(m_cubeMapUrls', m_imageUrl')
                   = source(m_cubeMapUrls, m_imageUrl) ]_vars

\* single image, then cube map, then single image "b" again
C7_Witness ==
    /\ kinds = <<"SphereRenderer", "CubeRenderer", "SphereRenderer">>
    /\ last.op = "setSource" /\ last.arg = StringVariant("b") /\ last.ret = "true"
    /\ last.fetched = <<"b">>
    /\ source(m_cubeMapUrls, m_imageUrl) = StringVariant("b")

\* C8 as stated: at every point between setSource calls, the freshly constructed
\* item included, exactly one of the two source variants is populated.
C8_SinglePopulated == m_image # "" /\ m_imageUrl # ""
C8_SingleEmpty == m_image = "" /\ m_imageUrl = ""
C8_CubePopulated == ~isEmpty(m_cubeMap) /\ ~isEmpty(m_cubeMapUrls)
C8_CubeEmpty == isEmpty(m_cubeMap) /\ isEmpty(m_cubeMapUrls)

C8_ExactlyOneVariantPopulated ==
    \/ C8_SinglePopulated /\ C8_CubeEmpty
    \/ C8_CubePopulated /\ C8_SingleEmpty

\* C8 as amended: no variant is populated until the first successful
\* setSource, and exactly one from then on.
C8_AtMostOneVariantPopulated ==
    IF kinds = <<>> THEN C8_SingleEmpty /\ C8_CubeEmpty
    ELSE C8_ExactlyOneVariantPopulated

\* a cube map has replaced a single image
C8_Witness ==
    /\ kinds = <<"SphereRenderer", "CubeRenderer">>
    /\ C8_CubePopulated /\ C8_SingleEmpty

\* C9: setSource with a mapping that lacks one of the six required keys returns
\* failure without ending the process, fetches nothing, emits nothing and
\* leaves the cube-map bytes and locators, the renderer kind and the recreate
\* flag as they were.
C9_MissingKeyFailsTheCallOnly ==
    [][ (/\ IsCall("setSource") /\ last'.arg.kind = "map"
         /\ Cardinality(RequiredKeySet \ DOMAIN last'.arg.map) = 1) =>
          /\ last'.ret = "false" /\ alive'
          /\ last'.fetched = <<>> /\ last'.emitted = <<>>
          /\ <<m_cubeMap, m_cubeMapUrls, m_rendererType, m_recreateRenderer>>'
               = <<m_cubeMap, m_cubeMapUrls, m_rendererType, m_recreateRenderer>>
      ]_vars

\* C10: a cube-map load one of whose fetched buffers is empty, does not decode
\* or decodes to an image without width or height fails and leaves the cube-map
\* bytes and locators as they were; a load that succeeds replaces the six
\* buffers and the locators together; the byte map has no face or six.
C10_Bad(data) == data \notin {"imgS", "imgL"}

C10_CubeMapAllOrNothing ==
    [][ /\ Cardinality(DOMAIN m_cubeMap') \in {0, 6}
        /\ (IsCall("setSource") /\ last'.arg.kind = "map" /\ last'.got # <<>>) =>
             IF \E k \in DOMAIN last'.got : C10_Bad(last'.got[k])
               THEN /\ last'.ret = "false"
                    /\ m_cubeMap' = m_cubeMap /\ m_cubeMapUrls' = m_cubeMapUrls
               ELSE /\ last'.ret = "true" /\ Len(last'.got) = 6
                    /\ m_cubeMapUrls' = last'.arg.map
                    /\ \A i \in 1..6 :
                         m_cubeMap'[nameToCubeFace(requiredKeys[i])] = last'.got[i]
      ]_vars

\* the sixth face decoded to an image without width while a cube map was loaded
C10_Witness ==
    /\ last.op = "setSource" /\ last.arg.kind = "map" /\ last.ret = "false"
    /\ Len(last.got) = 6 /\ last.got[6] = "w0"
    /\ DOMAIN m_cubeMap = Faces /\ m_cubeMapUrls = Full("b")

\* C11: a setSource call that returns failure leaves the single-image bytes and
\* locator, the cube-map bytes and locators, the renderer kind, the recreate
\* flag and the three view parameters as they were, emits nothing and
\* schedules no repaint; a call with an empty or malformed locator, or whose
\* fetch returns nothing, bytes that do not decode or an image without width
\* or height, returns failure.
C11_FailingString ==
    /\ last'.arg.kind = "string"
    /\ \/ last'.arg.url \in {"", ":malformed"}
       \/ last'.got # <<>> /\ last'.got[1] \notin {"imgS", "imgL"}

C11_FailedSetSourceChangesNothing ==
    [][ IsCall("setSource") =>
          /\ C11_FailingString => last'.ret = "false"
          /\ last'.ret = "false" =>
                /\ UNCHANGED <<m_image, m_imageUrl, m_cubeMap, m_cubeMapUrls,
                               m_rendererType, m_recreateRenderer>>
                /\ UNCHANGED <<m_azimuth, m_elevation, m_fieldOfView, m_nodeDirty>>
                /\ last'.emitted = <<>> /\ last'.updates = 0
      ]_vars

\* a fetch that returned an image without height, while an image was loaded
\* and a repaint from an earlier cube-map load was pending
C11_Witness ==
    /\ last.op = "setSource" /\ last.arg.kind = "string" /\ last.ret = "false"
    /\ last.got = <<"h0">>
    /\ m_image = "imgL" /\ m_imageUrl = "a" /\ m_recreateRenderer

\* C12: setMaximumTextureSize(v) emits nothing and schedules no repaint when
\* the smaller of v and the device limit known to the item is the effective
\* limit from before the call, and otherwise stores v, schedules one repaint
\* and emits maximumTextureSizeChanged once; whenever a step changes what
\* maximumTextureSize() returns, the step emits maximumTextureSizeChanged or
\* queues the invocation that emits it, and each delivered invocation emits it.
C12_Notified ==
    \/ last'.emitted = <<"maximumTextureSizeChanged">>
    \/ queued' = queued + 1

C13_SameScalars(a, o) ==
    /\ a.azimuth = o.azimuth /\ a.elevation = o.elevation /\ a.fov = o.fov
    /\ a.viewportWidth = o.viewportWidth /\ a.viewportHeight = o.viewportHeight
    /\ a.maxTexSize = o.maxTexSize

C13_SnapshotEquality ==
    pass.ran =>
      /\ ( /\ C13_SameScalars(renderer.m_state, renderer.m_oldState)
           /\ renderer.m_state.source_d = renderer.m_oldState.source_d
           /\ renderer.m_state.sourceCube_d = renderer.m_oldState.sourceCube_d )
         => ~pass.changed
      /\ ( /\ C13_SameScalars(renderer.m_state, renderer.m_oldState)
           /\ renderer.m_state.source = renderer.m_oldState.source
           /\ renderer.m_state.source_d # renderer.m_oldState.source_d )
         => pass.changed

\* C14: the sphere loop appends 6 vertices and 6 texture coordinates per cell
\* and ends after 64 x 32 cells with 12288 of each; the cube loop ends with
\* 24 vertices and 24 texture coordinates written, and the 4 vertices of each
\* face lie on the side the face is named after (faces in the order PX, PY,
\* PZ, MX, MY, MZ; side at +scale for the first three, -scale for the others).
C14_OnSide(v, face) ==
    CASE face = 0 -> v[1] = m_scale
      [] face = 1 -> v[2] = m_scale
      [] face = 2 -> v[3] = m_scale
      [] face = 3 -> v[1] = -m_scale
      [] face = 4 -> v[2] = -m_scale
      [] face = 5 -> v[3] = -m_scale

C14_SphereDone == sphere.i >= One
C14_CubeDone == cube.i >= Len(m_indices)

C14_MeshSizes ==
    /\ sphere.m_sphereVertices = 6 * sphere.cells
    /\ sphere.m_texCoords = 6 * sphere.cells
    /\ sphere.cells <= 64 * 32
    /\ C14_SphereDone <=> sphere.cells = 64 * 32
    /\ C14_SphereDone => sphere.m_sphereVertices = 12288 /\ sphere.m_texCoords = 12288
    /\ cube.i <= 24
    /\ C14_CubeDone =>
         /\ cube.i = 24
         /\ DOMAIN cube.m_vertices = 0..23 /\ DOMAIN cube.m_texCoords = 0..23
         /\ \A face \in 0..5 : \A k \in 0..3 :
              /\ C14_OnSide(cube.m_vertices[4 * face + k], face)
              /\ m_indices[4 * face + k + 1] \in 0..7
              /\ cube.m_vertices[4 * face + k] = m_cubeVertices[m_indices[4 * face + k + 1]]
              /\ cube.m_texCoords[4 * face + k] = m_texCoordsFace[k + 1]

\* both loops have ended
C14_Witness == C14_SphereDone /\ C14_CubeDone /\ sphere.cells = 2048

\* C15: every texture filled by a pass is no wider than the effective maximum
\* texture size of the pass's snapshot, the smaller of the device's limit and
\* the item's maximumTextureSize, and is as wide as the decoded image when
\* that fits.
C15_Decoded(t) ==
    loadFromData(IF renderer.kind = "CubeRenderer" THEN renderer.m_state.sourceCube[t]
                 ELSE renderer.m_state.source).width

C15_UploadsWithinEffectiveLimit ==
    \A t \in pass.uploaded :
       renderer.textures[t].width =
          (IF C15_Decoded(t) > renderer.m_state.maxTexSize
             THEN renderer.m_state.maxTexSize ELSE C15_Decoded(t))

\* C16: a pass of an existing renderer in which the decoding of a source
\* buffer gives no image leaves every texture of the renderer with the
\* storage it had before the pass and fills none.
C16_FailedDecodeKeepsTextures ==
    [][ ( /\ IsCall("updatePaintNode")
          /\ pass'.ran /\ ~pass'.created /\ pass'.failed # {} ) =>
          /\ renderer'.textures = renderer.textures
          /\ pass'.uploaded = {}
      ]_vars

\* C17: a pass whose new snapshot compares equal to the previous one does not
\* invalidate the framebuffer, recompute the matrix, decode, destroy or fill
\* a texture, and leaves matrix and textures as they were; the second of two
\* passes of one renderer with no call in between leaves matrix and textures
\* as they were; the previous snapshot of a pass is the snapshot the
\* renderer's preceding pass built, and the constructor's for a first pass.
C17_NoWork ==
    /\ ~pass'.changed /\ ~pass'.invalidated /\ ~pass'.recomputed
    /\ pass'.decoded = {} /\ pass'.destroyed = {} /\ pass'.uploaded = {}
    /\ renderer'.m_mvp = renderer.m_mvp
    /\ renderer'.textures = renderer.textures

C17_EqualSnapshotSkipsThePass ==
    [][ (IsCall("updatePaintNode") /\ pass'.ran) =>
          /\ renderer'.m_oldState = IF pass'.created THEN PhotoSphereRenderState
                                    ELSE renderer.m_state
          /\ stateEquals(renderer'.m_state, renderer'.m_oldState) => C17_NoWork
          /\ (last.op = "updatePaintNode" /\ pass.ran /\ ~pass'.created) =>
                /\ renderer'.m_mvp = renderer.m_mvp
                /\ renderer'.textures = renderer.textures
      ]_vars

\* a second pass in a row of a renderer whose texture is filled and whose
\* snapshot differs from the constructor's
C17_Witness ==
    /\ last.op = "updatePaintNode" /\ pass.ran /\ ~pass.created /\ ~pass.changed
    /\ renderer.kind = "SphereRenderer"
    /\ renderer.textures["photoSphere"].width > 0
    /\ renderer.m_state.fov = Degrees(60)
    /\ renderer.m_oldState = renderer.m_state

\* C18: a pass in which every decoding succeeds fills textures if and only if
\* the byte buffer of the renderer's kind is another data block than in the
\* previous snapshot, whatever bytes it holds, and the cube-map renderer then
\* fills all six; a pass with the same data block fills none.
C18_BufferChanged(r) ==
    IF r.kind = "CubeRenderer"
      THEN r.m_state.sourceCube_d # r.m_oldState.sourceCube_d
      ELSE r.m_state.source_d # r.m_oldState.source_d

C18_UploadsIffBufferChanged ==
    [][ (IsCall("updatePaintNode") /\ pass'.ran /\ pass'.failed = {}) =>
          /\ pass'.uploaded # {} <=> C18_BufferChanged(renderer')
          /\ pass'.uploaded # {} => pass'.uploaded = DOMAIN renderer'.textures
      ]_vars

\* C19: the renderer a pass synchronizes is of the item's kind; a setSource
\* call that changes the kind sets the recreate flag; while a renderer of
\* another kind than the item's exists the flag is set, and the next
\* paint-node update discards that renderer and leaves none or one of the
\* item's kind.
C19_OtherKind == renderer.kind \notin {"none", m_rendererType}

C19_RendererMatchesKind ==
    [][ /\ (IsCall("updatePaintNode") /\ pass'.ran) => renderer'.kind = m_rendererType'
        /\ (IsCall("setSource") /\ m_rendererType' # m_rendererType) =>
              last'.ret = "true" /\ m_recreateRenderer'
        /\ C19_OtherKind => m_recreateRenderer
        /\ (IsCall("updatePaintNode") /\ C19_OtherKind) =>
              /\ pass'.discarded
              /\ renderer'.kind \in {"none", m_rendererType'}
      ]_vars

\* a cube-map renderer took the place of an equirectangular one and its six
\* textures are filled
C19_Witness ==
    /\ last.op = "updatePaintNode" /\ pass.discarded /\ pass.created /\ pass.ran
    /\ renderer.kind = "CubeRenderer" /\ m_cubeMapUrls = Full("a")
    /\ kinds = <<"SphereRenderer", "CubeRenderer">>
    /\ renderer.textures["PX"].width > 0

\* C20: a paint-node update discards the existing renderer only when the
\* renderer is of another kind than the item's.
C20_DiscardsOnlyOtherKind ==
    [][ (IsCall("updatePaintNode") /\ pass'.discarded) =>
          renderer.kind # m_rendererType
      ]_vars

\* C21: a render changes no item field and no renderer state, and the frame
\* it draws has the matrix of the snapshot taken at the renderer's latest
\* synchronize and textures filled from that snapshot's bytes, whatever the
\* setters did to the item since; only a paint-node update changes the
\* renderer; a paint-node update leaves the view parameters, the source
\* bytes and their data blocks, the locators and the renderer kind alone.
C21_SnapshotBytes(t) ==
    IF renderer.kind = "SphereRenderer" THEN renderer.m_state.source
    ELSE IF t \in DOMAIN renderer.m_state.sourceCube THEN renderer.m_state.sourceCube[t]
    ELSE ""

C21_RenderUsesTheSnapshotOnly ==
    [][ /\ IsCall("render") =>
             /\ Len(frame'.matrix) = 3
             /\ frame'.matrix[1].angle = renderer.m_state.fov
             /\ frame'.matrix[1].w = renderer.m_state.viewportWidth
             /\ frame'.matrix[1].h = renderer.m_state.viewportHeight
             /\ frame'.matrix[2].angle = renderer.m_state.elevation
             /\ frame'.matrix[3].angle = renderer.m_state.azimuth
             /\ DOMAIN frame'.bound = DOMAIN renderer.textures
             /\ \A t \in DOMAIN frame'.bound : frame'.bound[t].bytes = C21_SnapshotBytes(t)
             /\ UNCHANGED <<renderer, viewVars, sourceVars, bufferVars, limitVars,
                            sizeVars, m_nodeDirty>>
        /\ renderer' # renderer => IsCall("updatePaintNode")
        /\ IsCall("updatePaintNode") =>
             UNCHANGED <<viewVars, m_image, m_imageUrl, m_cubeMap, m_cubeMapUrls,
                         m_rendererType, bufferVars>>
      ]_vars

\* a frame drawn after the field of view, the limit and the source were set
\* anew behind the latest paint-node update
C21_Witness ==
    /\ last.op = "render"
    /\ renderer.kind = "SphereRenderer" /\ frame.bound["photoSphere"].bytes = "imgL"
    /\ frame.matrix[1].angle = Degrees(90) /\ m_fieldOfView = Degrees(60)
    /\ m_rendererType = "CubeRenderer" /\ m_image = ""
    /\ renderer.m_state.maxTexSize # maximumTextureSize

(***************************************************************************)
(* C22: whenever sourceChanged is delivered during setSource, a handler    *)
(* that reads the source property at that moment gets the value being set: *)
(* the locator string of a single-image call, the six-entry mapping of a   *)
(* cube-map call, and never the mapping that was loaded before a           *)
(* single-image call.                                                      *)
(***************************************************************************)
C22_HandlerReadsNewValue ==
    [][IsCall("setSource") /\ last'.emitted # <<>> => heard' = <<last'.arg>>]_vars

====
